---- MODULE Spec2Model ----
(***************************************************************************)
(* Subtitle-track selection and alass orchestration of AutoSubSync:        *)
(*   main/functions/subtitle_track_selector.py                             *)
(*   main/functions/enhanced_alass_integration.py                          *)
(*   main/functions/subtitle_track_ui.py                                   *)
(*                                                                         *)
(* Strings that the code takes apart (paths, display names) are sequences  *)
(* of tokens: "/" is the path separator, an extension (".srt") is one      *)
(* token, and no other token holds a "/" or the text "tmp", so that        *)
(* Python's substring test `a in b` on the strings is the contiguous       *)
(* subsequence test on the token sequences.  Python's None is the record   *)
(* None for a track, the empty sequence for a path and NoIndex for a list  *)
(* position.  List positions are 0-based as in the code; the element at    *)
(* position p of a sequence s is s[p + 1].                                 *)
(***************************************************************************)
EXTENDS Integers, Sequences, FiniteSets, TLC

VARIABLES
    fs,      \* the paths that exist on disk
    media,   \* the streams ffprobe reports for the video file (its content)
    call,    \* the operation that has just run, with its arguments and results
    fin,     \* arguments drawn for a function applied on its own
    fout,    \* the results of that function
    origin,  \* for each file the Extractor wrote: the video and stream it was written for
    widget   \* the fields of the SubtitleTrackSelector widget

vars == <<fs, media, call, fin, fout, origin, widget>>

----------------------------------------------------------------------------
(* Bounds *)

\* The longest list of subtitle streams a container holds.
MaxTracks == 2

\* RunAlass is not started with this many files on disk (temporary files
\* pile up until the caller cleans them).
MaxFiles == 6

----------------------------------------------------------------------------
(* Values *)

None == [none |-> TRUE]

NoCall == [op |-> "idle"]

Absent == "<absent>"

NoIndex == 0 - 1

Digits == <<"0", "1", "2", "3", "4", "5", "6", "7", "8", "9">>

\* str(n) for the small n of a stream index or a track number
ToStr(n) == Digits[n + 1]

\* str.lower() on the language codes in use
Lower(s) ==
    CASE s = "EN" -> "en"
      [] s = "En" -> "en"
      [] s = "ES" -> "es"
      [] OTHER -> s

----------------------------------------------------------------------------
(* Paths *)

Exts == {".srt", ".ass", ".vtt", ".mkv", ".txt"}

Marker == "_extracted_track_"

\* tempfile.gettempdir()
TempDir == <<"/", "tmp">>

\* Python's `sub in s` on strings
Contains(sub, s) ==
    \E i \in 1..(Len(s) - Len(sub) + 1) : SubSeq(s, i, i + Len(sub) - 1) = sub

LastSep(p) ==
    IF \E i \in 1..Len(p) : p[i] = "/"
    THEN CHOOSE i \in 1..Len(p) : p[i] = "/" /\ \A j \in (i + 1)..Len(p) : p[j] # "/"
    ELSE 0

\* os.path.basename
Basename(p) == SubSeq(p, LastSep(p) + 1, Len(p))

\* os.path.splitext(p)[0]
SplitextRoot(p) ==
    IF Len(p) >= 2 /\ p[Len(p)] \in Exts /\ p[Len(p) - 1] # "/"
    THEN SubSeq(p, 1, Len(p) - 1)
    ELSE p

\* os.path.join(dir, name)
Join(dir, name) == dir \o <<"/">> \o name

\* the path lies in the directory dir (at any depth)
Under(dir, p) ==
    /\ Len(p) > Len(dir) + 1
    /\ SubSeq(p, 1, Len(dir)) = dir
    /\ p[Len(dir) + 1] = "/"

VideoOk == <<"/", "home", "/", "movie", ".mkv">>

VideoGone == <<"/", "home", "/", "gone", ".mkv">>

UserSubtitle == <<"/", "home", "/", "movie", ".srt">>

UserOutput == <<"/", "home", "/", "synced", ".srt">>

\* a user's file in a directory that is named tmp but is not the temporary directory
UserTmpFile == <<"/", "home", "/", "tmp", "/", "movie", Marker, "0", ".srt">>

\* a file of another program in the temporary directory
TempOther == <<"/", "tmp", "/", "notes", ".srt">>

TempGone == <<"/", "tmp", "/", "gone", Marker, "0", ".srt">>

VideoPaths == {VideoOk, VideoGone}

----------------------------------------------------------------------------
(* Track Prober: get_subtitle_tracks *)

Get(v, default) == IF v = Absent THEN default ELSE v

\* " ".join(parts), each part being a sequence of tokens
RECURSIVE SpaceJoin(_)
SpaceJoin(parts) ==
    IF parts = <<>> THEN <<>>
    ELSE IF Len(parts) = 1 THEN parts[1]
    ELSE parts[1] \o <<" ">> \o SpaceJoin(Tail(parts))

\* lines 62-69: the parts of the display name for the track numbered n
DisplayParts(n, language, title, codec_name) ==
    <<  <<"Track", " ", ToStr(n)>>  >>
    \o (IF language # "unknown" THEN << <<"(", language, ")">> >> ELSE <<>>)
    \o (IF title # "" THEN << <<"-", " ", title>> >> ELSE <<>>)
    \o (IF codec_name # "unknown" THEN << <<"[", codec_name, "]">> >> ELSE <<>>)

\* a dictionary whose display name numbers the track by its stream index
TrackInfoByStreamIndex(i, stream) ==
    LET codec_name == Get(stream.codec_name, "unknown")
        language == Get(stream.language, "unknown")
        title == Get(stream.title, "")
    IN  [index |-> stream.index,
         codec_name |-> codec_name,
         language |-> language,
         title |-> title,
         display_name |-> SpaceJoin(DisplayParts(stream.index + 1, language, title, codec_name))]

\* the dictionary built for stream number i (0-based) of ffprobe's output
TrackInfo(i, stream) ==
    LET codec_name == Get(stream.codec_name, "unknown")
        language == Get(stream.language, "unknown")
        title == Get(stream.title, "")
    IN  [index |-> stream.index,
         codec_name |-> codec_name,
         language |-> language,
         title |-> title,
         display_name |-> SpaceJoin(DisplayParts(i + 1, language, title, codec_name))]

IsSubtitle(e) == e.codec_type = "subtitle"

\* the loop over data["streams"]
ParseStreams(streams) ==
    LET all == [k \in 1..Len(streams) |->
                   [codec_type |-> streams[k].codec_type,
                    info |-> TrackInfo(k - 1, streams[k])]]
        kept == SelectSeq(all, IsSubtitle)
    IN  [k \in 1..Len(kept) |-> kept[k].info]

\* what becomes of the ffprobe run: the executable is missing, subprocess.run
\* raises OSError or TimeoutExpired, ffprobe exits non-zero, its output is not
\* JSON, or it prints the streams
ProbeOutcomes == {"ok", "no_ffprobe", "oserror", "timeout", "nonzero", "malformed"}

NoException == "none"

\* lines 20-73, the body of the try block: what it returns, or the exception
\* it raises
ProbeBody(outcome, streams) ==
    IF outcome = "no_ffprobe" THEN [tracks |-> <<>>, tools |-> <<>>, raised |-> NoException]
    ELSE IF outcome = "oserror"
    THEN [tracks |-> <<>>, tools |-> <<"ffprobe">>, raised |-> "OSError"]
    ELSE IF outcome = "timeout"
    THEN [tracks |-> <<>>, tools |-> <<"ffprobe">>, raised |-> "TimeoutExpired"]
    ELSE IF outcome = "nonzero"
    THEN [tracks |-> <<>>, tools |-> <<"ffprobe">>, raised |-> NoException]
    ELSE IF outcome = "malformed"
    THEN [tracks |-> <<>>, tools |-> <<"ffprobe">>, raised |-> "JSONDecodeError"]
    ELSE IF outcome = "ok"
    THEN [tracks |-> ParseStreams(streams), tools |-> <<"ffprobe">>, raised |-> NoException]
    ELSE [tracks |-> <<>>, tools |-> <<"ffprobe">>, raised |-> NoException]

\* a handler for the failure of the process only
CatchesCalledProcessError(exception) == exception = "CalledProcessError"

\* `except Exception`: every exception the body raises is a subclass
CatchesException(exception) ==
    exception \in {"OSError", "PermissionError", "TimeoutExpired", "JSONDecodeError", "CalledProcessError"}

\* get_subtitle_tracks that starts ffprobe without looking for the video first
GetSubtitleTracksUnchecked(video_path, files, outcome, streams) ==
    LET body == ProbeBody(outcome, streams)
    IN  IF body.raised # NoException /\ CatchesException(body.raised)
        THEN [tracks |-> <<>>, tools |-> body.tools, raised |-> NoException]
        ELSE body

\* get_subtitle_tracks(video_path), with the files on disk, what becomes of
\* the ffprobe run and the streams it would print: the list returned, the
\* tools started and the exception that reaches the caller
GetSubtitleTracks(video_path, files, outcome, streams) ==
    IF video_path \notin files
    THEN [tracks |-> <<>>, tools |-> <<>>, raised |-> NoException]
    ELSE LET body == ProbeBody(outcome, streams)
         IN  IF body.raised # NoException /\ CatchesException(body.raised)
             THEN [tracks |-> <<>>, tools |-> body.tools, raised |-> NoException]
             ELSE body

----------------------------------------------------------------------------
(* Track Ranker: get_best_subtitle_track *)

FirstMatch(tracks, preferred_language) ==
    CHOOSE i \in 1..Len(tracks) :
        /\ Lower(tracks[i].language) = Lower(preferred_language)
        /\ \A j \in 1..(i - 1) : Lower(tracks[j].language) # Lower(preferred_language)

\* get_best_subtitle_track comparing the language codes as written
GetBestCaseSensitive(tracks, preferred_language) ==
    IF tracks = <<>> THEN NoIndex
    ELSE IF \E i \in 1..Len(tracks) : tracks[i].language = preferred_language
         THEN (CHOOSE i \in 1..Len(tracks) :
                  /\ tracks[i].language = preferred_language
                  /\ \A j \in 1..(i - 1) : tracks[j].language # preferred_language) - 1
         ELSE 0

GetBestSubtitleTrack(tracks, preferred_language) ==
    IF tracks = <<>> THEN NoIndex
    ELSE IF \E i \in 1..Len(tracks) :
                Lower(tracks[i].language) = Lower(preferred_language)
         THEN FirstMatch(tracks, preferred_language) - 1
         ELSE 0

----------------------------------------------------------------------------
(* Interactive collaborator: show_track_selection_dialog *)

\* what the user does with the dialog: cancel (NoIndex) or OK on a position
DialogAnswers(tracks) == {NoIndex} \cup (0..(Len(tracks) - 1))

ShowTrackSelectionDialog(tracks, answer) ==
    IF tracks = <<>> THEN None
    ELSE IF Len(tracks) = 1 THEN tracks[1]
    ELSE IF answer = NoIndex THEN None
    ELSE tracks[answer + 1]

----------------------------------------------------------------------------
(* Track Extractor: extract_subtitle_track *)

\* format_map.get(codec_name, "srt"), as the extension it gives
OutputFormat(codec_name) ==
    CASE codec_name = "subrip" -> ".srt"
      [] codec_name = "ass" -> ".ass"
      [] codec_name = "webvtt" -> ".vtt"
      [] codec_name = "mov_text" -> ".srt"
      [] OTHER -> ".srt"

\* the caller's output path, taken as it is
KeepExtension(output_path, codec_name) == output_path

\* f"{os.path.splitext(output_path)[0]}.{output_format}"
RewriteExtension(output_path, codec_name) ==
    SplitextRoot(output_path) \o <<OutputFormat(codec_name)>>

\* the arguments of the ffmpeg command that vary
FfmpegCmd(video_path, track_index, output_path, codec_name) ==
    [input |-> video_path,
     map |-> track_index,
     codec |-> IF codec_name = "ass" THEN "copy" ELSE "srt",
     output |-> RewriteExtension(output_path, codec_name)]

NoCmd == [input |-> <<>>]

\* what becomes of the ffmpeg run: the executable is missing, subprocess.run
\* raises OSError or TimeoutExpired, ffmpeg exits non-zero, or it exits zero
\* without or with the output file written
FfmpegOutcomes == {"no_ffmpeg", "oserror", "timeout", "nonzero", "zero_nofile", "zero"}

\* a return value that trusts the exit code alone
ExtractReturnExitOnly(returncode, output_exists) == returncode = 0

\* line 132: result.returncode == 0 and os.path.exists(output_path)
ExtractReturn(returncode, output_exists) == returncode = 0 /\ output_exists

\* lines 94-132, the body of the try block: what it returns, or the exception
\* it raises
ExtractBody(video_path, track_index, output_path, codec_name, files, outcome) ==
    LET cmd == FfmpegCmd(video_path, track_index, output_path, codec_name)
        after == IF outcome = "zero" THEN files \cup {cmd.output} ELSE files
        returncode == IF outcome \in {"zero", "zero_nofile"} THEN 0 ELSE 1
    IN  IF outcome = "no_ffmpeg"
        THEN [success |-> FALSE, cmd |-> NoCmd, files |-> files, tools |-> <<>>, raised |-> NoException]
        ELSE IF outcome = "oserror"
        THEN [success |-> FALSE, cmd |-> cmd, files |-> files, tools |-> <<"ffmpeg">>, raised |-> "OSError"]
        ELSE IF outcome = "timeout"
        THEN [success |-> FALSE, cmd |-> cmd, files |-> files, tools |-> <<"ffmpeg">>, raised |-> "TimeoutExpired"]
        ELSE [success |-> ExtractReturn(returncode, cmd.output \in after),
              cmd |-> cmd, files |-> after, tools |-> <<"ffmpeg">>, raised |-> NoException]

\* extract_subtitle_track(video_path, track_index, output_path, codec_name),
\* with the files on disk and what becomes of the ffmpeg run
ExtractSubtitleTrack(video_path, track_index, output_path, codec_name, files, outcome) ==
    LET body == ExtractBody(video_path, track_index, output_path, codec_name, files, outcome)
    IN  IF body.raised # NoException /\ CatchesException(body.raised)
        THEN [body EXCEPT !.success = FALSE, !.raised = NoException]
        ELSE body

----------------------------------------------------------------------------
(* Selection Resolver and Sync Job Orchestrator: enhanced_alass_integration *)

\* Python's truth value of a track dictionary or None
Truthy(track) == track # None

\* the selection with a pre-supplied track used only if the probe lists it
SelectTrackValidated(tracks, selected_track, auto_select, preferred_language, parent_window, answer) ==
    IF Truthy(selected_track) /\ \E k \in 1..Len(tracks) : tracks[k] = selected_track
    THEN [info |-> selected_track, dialog |-> FALSE]
    ELSE IF auto_select \/ Len(tracks) = 1
    THEN LET best_index == GetBestSubtitleTrack(tracks, preferred_language)
         IN  [info |-> IF best_index # NoIndex THEN tracks[best_index + 1] ELSE None,
              dialog |-> FALSE]
    ELSE IF parent_window
    THEN [info |-> ShowTrackSelectionDialog(tracks, answer), dialog |-> TRUE]
    ELSE [info |-> tracks[1], dialog |-> FALSE]

\* the selection without the single-track shortcut
SelectTrackAutoOnly(tracks, selected_track, auto_select, preferred_language, parent_window, answer) ==
    IF Truthy(selected_track)
    THEN [info |-> selected_track, dialog |-> FALSE]
    ELSE IF auto_select
    THEN LET best_index == GetBestSubtitleTrack(tracks, preferred_language)
         IN  [info |-> IF best_index # NoIndex THEN tracks[best_index + 1] ELSE None,
              dialog |-> FALSE]
    ELSE IF parent_window
    THEN [info |-> ShowTrackSelectionDialog(tracks, answer), dialog |-> TRUE]
    ELSE [info |-> tracks[1], dialog |-> FALSE]

\* the selection that never shows the dialog
SelectTrackNoDialog(tracks, selected_track, auto_select, preferred_language, parent_window, answer) ==
    IF Truthy(selected_track)
    THEN [info |-> selected_track, dialog |-> FALSE]
    ELSE IF auto_select \/ Len(tracks) = 1
    THEN LET best_index == GetBestSubtitleTrack(tracks, preferred_language)
         IN  [info |-> IF best_index # NoIndex THEN tracks[best_index + 1] ELSE None,
              dialog |-> FALSE]
    ELSE [info |-> tracks[1], dialog |-> FALSE]

\* lines 38-55: the track to use among the probed tracks (not empty), and
\* whether the dialog was shown
SelectTrack(tracks, selected_track, auto_select, preferred_language, parent_window, answer) ==
    IF Truthy(selected_track)
    THEN [info |-> selected_track, dialog |-> FALSE]
    ELSE IF auto_select \/ Len(tracks) = 1
    THEN LET best_index == GetBestSubtitleTrack(tracks, preferred_language)
         IN  [info |-> IF best_index # NoIndex THEN tracks[best_index + 1] ELSE None,
              dialog |-> FALSE]
    ELSE IF parent_window
    THEN [info |-> ShowTrackSelectionDialog(tracks, answer), dialog |-> TRUE]
    ELSE [info |-> tracks[1], dialog |-> FALSE]

NoSelection == [info |-> None, dialog |-> FALSE]

\* the resolver that looks at the pre-supplied track before the empty probe
ResolvePreSuppliedFirst(video_path, files, tracks, selected_track, auto_select, preferred_language, parent_window, answer) ==
    IF video_path \notin files THEN NoSelection
    ELSE IF Truthy(selected_track) THEN [info |-> selected_track, dialog |-> FALSE]
    ELSE IF tracks = <<>> THEN NoSelection
    ELSE SelectTrack(tracks, selected_track, auto_select, preferred_language,
                     parent_window, answer)

\* lines 29-58: the Selection Resolver.  tracks is what get_subtitle_tracks
\* returned (not called, and taken as empty here, when the video is missing).
Resolve(video_path, files, tracks, selected_track, auto_select, preferred_language, parent_window, answer) ==
    IF video_path \notin files THEN NoSelection
    ELSE IF tracks = <<>> THEN NoSelection
    ELSE SelectTrack(tracks, selected_track, auto_select, preferred_language,
                     parent_window, answer)

\* os.path.join(temp_dir, f"{video_name}_extracted_track_{index}.srt")
TempSubtitlePath(video_path, index) ==
    Join(TempDir, SplitextRoot(Basename(video_path)) \o <<Marker, ToStr(index), ".srt">>)

\* extract_best_subtitle_for_alass(video_path, parent_window, selected_track,
\* auto_select, preferred_language); result is the path returned, <<>> for None
ExtractBestSubtitleForAlass(video_path, parent_window, selected_track, auto_select, preferred_language, files, streams, probe, answer, ffmpeg) ==
    LET probed == GetSubtitleTracks(video_path, files, probe, streams)
        tracks == probed.tracks
        sel == Resolve(video_path, files, tracks, selected_track, auto_select,
                       preferred_language, parent_window, answer)
        shown == IF sel.dialog THEN <<"dialog">> ELSE <<>>
    IN  IF ~Truthy(sel.info)
        THEN [tracks |-> tracks, info |-> sel.info, dialog |-> sel.dialog,
              temp_subtitle_path |-> <<>>, cmd |-> NoCmd, success |-> FALSE,
              result |-> <<>>, files |-> files, tools |-> probed.tools \o shown]
        ELSE
        LET temp_subtitle_path == TempSubtitlePath(video_path, sel.info.index)
            ex == ExtractSubtitleTrack(video_path, sel.info.index, temp_subtitle_path,
                                       sel.info.codec_name, files, ffmpeg)
        IN  [tracks |-> tracks, info |-> sel.info, dialog |-> sel.dialog,
             temp_subtitle_path |-> temp_subtitle_path,
             cmd |-> ex.cmd, success |-> ex.success,
             result |-> IF ex.success /\ temp_subtitle_path \in ex.files
                        THEN temp_subtitle_path ELSE <<>>,
             files |-> ex.files,
             tools |-> probed.tools \o shown \o ex.tools]

\* the command line of alass without the fall back to the video
AlassCmdNoFallback(video_path, reference_subtitle_path, subtitle_path, output_path, additional_args) ==
    <<reference_subtitle_path, subtitle_path, output_path>> \o additional_args

\* lines 112-132: the command line of alass, without the executable
AlassCmd(video_path, reference_subtitle_path, subtitle_path, output_path, additional_args) ==
    LET reference_file == IF reference_subtitle_path = <<>>
                          THEN video_path ELSE reference_subtitle_path
    IN  <<reference_file, subtitle_path, output_path>> \o additional_args

\* the process handle of a launch that waits for alass to exit
PopenAndWait(cmd) == [args |-> cmd, stdout |-> "PIPE", stderr |-> "PIPE", text |-> TRUE, state |-> "exited"]

\* lines 135-141: subprocess.Popen(cmd, stdout=PIPE, stderr=PIPE, text=True),
\* the handle of the process just started
Popen(cmd) == [args |-> cmd, stdout |-> "PIPE", stderr |-> "PIPE", text |-> TRUE, state |-> "running"]

\* lines 153-157, the body of the try block: the files on disk afterwards, or
\* the exception os.remove raises
CleanupBody(subtitle_path, files, remove_ok) ==
    IF /\ subtitle_path # <<>>
       /\ subtitle_path \in files
       /\ Contains(TempDir, subtitle_path)
       /\ Contains(<<Marker>>, Basename(subtitle_path))
    THEN IF remove_ok
         THEN [files |-> files \ {subtitle_path}, raised |-> NoException]
         ELSE [files |-> files, raised |-> "PermissionError"]
    ELSE [files |-> files, raised |-> NoException]

\* the cleanup without its try block
CleanupWithoutTry(subtitle_path, files, remove_ok) == CleanupBody(subtitle_path, files, remove_ok)

\* cleanup_extracted_subtitle(subtitle_path): the files on disk afterwards and
\* the exception that reaches the caller
CleanupExtractedSubtitle(subtitle_path, files, remove_ok) ==
    LET body == CleanupBody(subtitle_path, files, remove_ok)
    IN  IF body.raised # NoException /\ CatchesException(body.raised)
        THEN [body EXCEPT !.raised = NoException]
        ELSE body

----------------------------------------------------------------------------
(* The environment *)

\* what a subtitle stream of a container can be
StreamKinds ==
    { [codec_name |-> "subrip", language |-> "en", title |-> "English"],
      [codec_name |-> "ass", language |-> "ES", title |-> Absent] }

\* the number of streams of other types that precede the subtitle streams
Offsets == {0, 2}

Streams(offset, kinds) ==
    [k \in 1..Len(kinds) |->
        [index |-> offset + k - 1,
         codec_type |-> "subtitle",
         codec_name |-> kinds[k].codec_name,
         language |-> kinds[k].language,
         title |-> kinds[k].title]]

Medias ==
    { Streams(offset, kinds) :
        offset \in Offsets,
        kinds \in UNION { [1..n -> StreamKinds] : n \in 0..MaxTracks } }

\* a track of another video, as a caller may still hold it
ForeignTrack ==
    TrackInfo(2, [index |-> 4, codec_type |-> "subtitle", codec_name |-> "mov_text",
                  language |-> "fr", title |-> Absent])

Range(s) == { s[k] : k \in 1..Len(s) }

SelectedTracks == {None, ForeignTrack} \cup Range(ParseStreams(media))

PreferredLanguages == {"En", "es"}

\* the extra arguments the caller passes on to alass
ArgChoices == { << <<"--split-penalty">>, <<"10">> >> }

CleanupPaths == fs \cup {<<>>, VideoGone, TempGone}

\* the paths get_subtitle_tracks is called with on its own
ProbePaths == VideoPaths \cup {<<>>, TempGone}

----------------------------------------------------------------------------
(* The state machine *)

InitFiles == {VideoOk, UserSubtitle, UserTmpFile, TempOther}

Init ==
    /\ fs = InitFiles
    /\ media \in Medias
    /\ call = NoCall
    /\ fin = None
    /\ fout = None
    /\ origin = None
    /\ widget = None

\* The environment answers only what the code asks: ffprobe and ffmpeg have an
\* outcome when they are started, the dialog an answer when it is shown.
ProbesOf(video_path) ==
    IF video_path \in fs THEN ProbeOutcomes ELSE {"not_run"}

AnswersOf(video_path, parent_window, selected_track, auto_select, preferred_language, probe) ==
    IF ExtractBestSubtitleForAlass(video_path, parent_window, selected_track, auto_select,
           preferred_language, fs, media, probe, NoIndex, "not_run").dialog
    THEN DialogAnswers(ParseStreams(media))
    ELSE {NoIndex}

FfmpegOf(video_path, parent_window, selected_track, auto_select, preferred_language, probe, answer) ==
    IF Truthy(ExtractBestSubtitleForAlass(video_path, parent_window, selected_track,
                  auto_select, preferred_language, fs, media, probe, answer, "not_run").info)
    THEN FfmpegOutcomes
    ELSE {"not_run"}

\* run_alass_with_subtitle_track
RunAlass ==
    /\ call = NoCall
    /\ Cardinality(fs) < MaxFiles
    /\ \E video_path \in VideoPaths, selected_track \in SelectedTracks,
          parent_window \in BOOLEAN, auto_select \in BOOLEAN,
          preferred_language \in PreferredLanguages, additional_args \in ArgChoices :
       \E probe \in ProbesOf(video_path) :
       \E answer \in AnswersOf(video_path, parent_window, selected_track, auto_select,
                               preferred_language, probe) :
       \E ffmpeg \in FfmpegOf(video_path, parent_window, selected_track, auto_select,
                              preferred_language, probe, answer) :
        LET r == ExtractBestSubtitleForAlass(video_path, parent_window, selected_track,
                     auto_select, preferred_language, fs, media, probe, answer, ffmpeg)
            cmd == AlassCmd(video_path, r.result, UserSubtitle, UserOutput, additional_args)
        IN  /\ call' = [op |-> "run_alass",
                        video_path |-> video_path,
                        selected_track |-> selected_track,
                        parent_window |-> parent_window,
                        auto_select |-> auto_select,
                        preferred_language |-> preferred_language,
                        additional_args |-> additional_args,
                        tracks |-> r.tracks,
                        dialog |-> r.dialog,
                        answer |-> answer,
                        selected_track_info |-> r.info,
                        temp_subtitle_path |-> r.temp_subtitle_path,
                        ffmpeg_cmd |-> r.cmd,
                        success |-> r.success,
                        reference_subtitle_path |-> r.result,
                        popen |-> cmd,
                        process |-> Popen(cmd),
                        tools |-> r.tools \o <<"alass">>,
                        fs_before |-> fs]
            /\ fs' = r.files
    /\ UNCHANGED <<media, fin, fout, origin, widget>>

\* get_subtitle_tracks called on its own (as the track selector widget does)
Probe ==
    /\ call = NoCall
    /\ \E video_path \in ProbePaths :
       \E probe \in ProbesOf(video_path) :
        LET r == GetSubtitleTracks(video_path, fs, probe, media)
        IN  call' = [op |-> "get_subtitle_tracks",
                     video_path |-> video_path,
                     tracks |-> r.tracks,
                     tools |-> r.tools,
                     fs_before |-> fs]
    /\ UNCHANGED <<fs, media, fin, fout, origin, widget>>

\* cleanup_extracted_subtitle
Cleanup ==
    /\ call = NoCall
    /\ \E subtitle_path \in CleanupPaths, remove_ok \in BOOLEAN :
        /\ fs' = CleanupExtractedSubtitle(subtitle_path, fs, remove_ok).files
        /\ call' = [op |-> "cleanup",
                    subtitle_path |-> subtitle_path,
                    remove_ok |-> remove_ok,
                    raised |-> CleanupExtractedSubtitle(subtitle_path, fs, remove_ok).raised,
                    fs_before |-> fs]
    /\ UNCHANGED <<media, fin, fout, origin, widget>>

\* the caller has its result and is ready for the next operation
Return ==
    /\ call # NoCall
    /\ call' = NoCall
    /\ UNCHANGED <<fs, media, fin, fout, origin, widget>>

Next == RunAlass \/ Probe \/ Cleanup \/ Return

Spec == Init /\ [][Next]_vars

----------------------------------------------------------------------------
(* The Ranker applied on its own to drawn track lists *)

\* subtitle streams of every codec the Extractor knows, and one it does not
AllStreamKinds ==
    StreamKinds \cup
    { [codec_name |-> "webvtt", language |-> Absent, title |-> "Forced"],
      [codec_name |-> "mov_text", language |-> "EN", title |-> Absent],
      [codec_name |-> Absent, language |-> "es", title |-> Absent] }

AllMedias ==
    { Streams(offset, kinds) :
        offset \in Offsets,
        kinds \in UNION { [1..n -> AllStreamKinds] : n \in 0..MaxTracks } }

RankerLanguages == {"en", "ES", "de"}

InitRanker ==
    /\ fs = InitFiles
    /\ media = <<>>
    /\ call = NoCall
    /\ fin \in { [tracks |-> ParseStreams(m), preferred_language |-> l] :
                    m \in AllMedias, l \in RankerLanguages }
    /\ fout = None
    /\ origin = None
    /\ widget = None

\* get_best_subtitle_track(tracks, preferred_language)
Rank ==
    /\ fout = None
    /\ fout' = [best |-> GetBestSubtitleTrack(fin.tracks, fin.preferred_language)]
    /\ UNCHANGED <<fs, media, call, fin, origin, widget>>

SpecRanker == InitRanker /\ [][Rank]_vars

----------------------------------------------------------------------------
(* The Resolver applied twice to the same pre-supplied track *)

ProbedLists == { ParseStreams(m) : m \in Medias }

PreSupplied == {ForeignTrack} \cup UNION { Range(t) : t \in ProbedLists }

InitResolver ==
    /\ fs = InitFiles
    /\ media = <<>>
    /\ call = NoCall
    /\ fin \in [selected_track : PreSupplied,
                first : ProbedLists,
                second : ProbedLists,
                auto_select : BOOLEAN,
                parent_window : BOOLEAN]
    /\ fout = None
    /\ origin = None
    /\ widget = None

\* lines 29-58 of extract_best_subtitle_for_alass, run on the video twice with
\* what the probe returned each time; a dialog, if one were shown, is cancelled
ResolveTwice ==
    /\ fout = None
    /\ fout' = [first |-> Resolve(VideoOk, fs, fin.first, fin.selected_track,
                                  fin.auto_select, "en", fin.parent_window, NoIndex).info,
                second |-> Resolve(VideoOk, fs, fin.second, fin.selected_track,
                                   fin.auto_select, "en", fin.parent_window, NoIndex).info]
    /\ UNCHANGED <<fs, media, call, fin, origin, widget>>

SpecResolver == InitResolver /\ [][ResolveTwice]_vars

----------------------------------------------------------------------------
(* The Prober applied on its own to drawn ffprobe runs *)

InitProber ==
    /\ fs = InitFiles
    /\ media = <<>>
    /\ call = NoCall
    /\ fin \in [video_path : ProbePaths, outcome : ProbeOutcomes, streams : AllMedias]
    /\ fout = None
    /\ origin = None
    /\ widget = None

\* get_subtitle_tracks(video_path)
ProbeOnce ==
    /\ fout = None
    /\ fout' = GetSubtitleTracks(fin.video_path, fs, fin.outcome, fin.streams)
    /\ UNCHANGED <<fs, media, call, fin, origin, widget>>

SpecProber == InitProber /\ [][ProbeOnce]_vars

----------------------------------------------------------------------------
(* The Extractor applied on its own to drawn requests *)

\* a caller's output path with an extension that is no subtitle format
OutTxt == <<"/", "home", "/", "x", ".txt">>

\* a caller's output path without extension
OutBare == <<"/", "home", "/", "x">>

ExtractOutputs == {OutTxt, OutBare, TempSubtitlePath(VideoOk, 0)}

ExtractCodecs == {"subrip", "ass", "webvtt", "mov_text", "unknown", "dvd_subtitle"}

\* stale: a file already lies at the path the command will write
InitExtractor ==
    /\ fin \in [video_path : {VideoOk}, track_index : {0, 2}, output_path : ExtractOutputs, codec_name : ExtractCodecs, outcome : FfmpegOutcomes, stale : BOOLEAN]
    /\ fs = InitFiles \cup (IF fin.stale THEN {RewriteExtension(fin.output_path, fin.codec_name)} ELSE {})
    /\ media = <<>>
    /\ call = NoCall
    /\ fout = None
    /\ origin = None
    /\ widget = None

\* extract_subtitle_track(video_path, track_index, output_path, codec_name)
ExtractOnce ==
    /\ fout = None
    /\ LET r == ExtractSubtitleTrack(fin.video_path, fin.track_index, fin.output_path, fin.codec_name, fs, fin.outcome)
       IN  /\ fout' = [r EXCEPT !.files = fs]
           /\ fs' = r.files
    /\ UNCHANGED <<media, call, fin, origin, widget>>

SpecExtractor == InitExtractor /\ [][ExtractOnce]_vars

----------------------------------------------------------------------------
(* The Orchestrator called for two videos of the same name in two directories *)

TwinA == <<"/", "home", "/", "a", "/", "movie", ".mkv">>

TwinB == <<"/", "home", "/", "b", "/", "movie", ".mkv">>

TwinVideos == {TwinA, TwinB}

\* each video holds one subtitle stream
TwinMedias == { Streams(offset, <<kind>>) : offset \in Offsets, kind \in StreamKinds }

InitTemp ==
    /\ fs = TwinVideos \cup {UserSubtitle}
    /\ media \in [TwinVideos -> TwinMedias]
    /\ call = NoCall
    /\ fin = None
    /\ fout = None
    /\ origin = {}
    /\ widget = None

\* what is known of the files the Extractor wrote, once ffmpeg has run
Written(records, ffmpeg_cmd, ffmpeg, video_path, index) ==
    IF ffmpeg_cmd # NoCmd /\ ffmpeg = "zero"
    THEN {o \in records : o.path # ffmpeg_cmd.output}
         \cup {[path |-> ffmpeg_cmd.output, video_path |-> video_path, index |-> index]}
    ELSE records

\* run_alass_with_subtitle_track(video_path, ..., auto_select_track=True)
RunAlassTwin ==
    /\ call = NoCall
    /\ \E video_path \in TwinVideos, preferred_language \in PreferredLanguages, probe \in ProbeOutcomes, ffmpeg \in FfmpegOutcomes :
        LET r == ExtractBestSubtitleForAlass(video_path, FALSE, None, TRUE, preferred_language, fs, media[video_path], probe, NoIndex, ffmpeg)
            cmd == AlassCmd(video_path, r.result, UserSubtitle, UserOutput, <<>>)
            index == IF Truthy(r.info) THEN r.info.index ELSE NoIndex
        IN  /\ call' = [op |-> "run_alass",
                        video_path |-> video_path,
                        selected_track_info |-> r.info,
                        temp_subtitle_path |-> r.temp_subtitle_path,
                        ffmpeg_cmd |-> r.cmd,
                        wrote |-> r.cmd # NoCmd /\ ffmpeg = "zero",
                        success |-> r.success,
                        reference_subtitle_path |-> r.result,
                        popen |-> cmd,
                        process |-> Popen(cmd),
                        tools |-> r.tools \o <<"alass">>,
                        fs_before |-> fs,
                        origin_before |-> origin]
            /\ fs' = r.files
            /\ origin' = Written(origin, r.cmd, ffmpeg, video_path, index)
    /\ UNCHANGED <<media, fin, fout, widget>>

\* cleanup_extracted_subtitle(subtitle_path) on a file of the disk
CleanupTwin ==
    /\ call = NoCall
    /\ \E subtitle_path \in fs, remove_ok \in BOOLEAN :
        LET r == CleanupExtractedSubtitle(subtitle_path, fs, remove_ok)
        IN  /\ fs' = r.files
            /\ origin' = {o \in origin : o.path \in r.files}
            /\ call' = [op |-> "cleanup",
                        subtitle_path |-> subtitle_path,
                        remove_ok |-> remove_ok,
                        raised |-> r.raised,
                        fs_before |-> fs]
    /\ UNCHANGED <<media, fin, fout, widget>>

ReturnTwin ==
    /\ call # NoCall
    /\ call' = NoCall
    /\ UNCHANGED <<fs, media, fin, fout, origin, widget>>

NextTemp == RunAlassTwin \/ CleanupTwin \/ ReturnTwin

SpecTemp == InitTemp /\ [][NextTemp]_vars

----------------------------------------------------------------------------
(* The track selector widget: SubtitleTrackSelector *)

\* a path of white space only
BlankPath == <<" ">>

\* `not video_path or not video_path.strip()`
IsBlank(video_path) == video_path = <<>> \/ \A i \in 1..Len(video_path) : video_path[i] = " "

\* __init__: the fields of a new widget; video_path records the argument of
\* the last update_video_file, notified the last value given to
\* on_selection_change
NewSelector ==
    [current_tracks |-> <<>>,
     selected_track_index |-> 0,
     values |-> <<>>,
     current |-> NoIndex,
     shown |-> FALSE,
     video_path |-> <<>>,
     notified |-> None]

\* get_selected_track()
GetSelectedTrack(w) ==
    IF w.current_tracks = <<>> THEN None
    ELSE IF w.selected_track_index + 1 \in 1..Len(w.current_tracks)
    THEN w.current_tracks[w.selected_track_index + 1]
    ELSE None

\* update_video_file(video_path), with the list get_subtitle_tracks returns
UpdateVideoFile(w, video_path, tracks) ==
    IF IsBlank(video_path)
    THEN [w EXCEPT !.shown = FALSE, !.video_path = video_path]
    ELSE IF tracks = <<>>
    THEN [w EXCEPT !.current_tracks = tracks, !.shown = FALSE, !.video_path = video_path]
    ELSE LET shown == [w EXCEPT !.current_tracks = tracks,
                                !.values = [k \in 1..Len(tracks) |-> tracks[k].display_name],
                                !.current = 0,
                                !.selected_track_index = 0,
                                !.shown = Len(tracks) > 1,
                                !.video_path = video_path]
         IN  [shown EXCEPT !.notified = GetSelectedTrack(shown)]

\* _on_track_selected(), the combobox standing at position selection
OnTrackSelected(w, selection) ==
    LET picked == [w EXCEPT !.current = selection]
    IN  IF selection >= 0
        THEN LET set == [picked EXCEPT !.selected_track_index = selection]
             IN  [set EXCEPT !.notified = GetSelectedTrack(set)]
        ELSE picked

SelectorPaths == TwinVideos \cup {<<>>, BlankPath, VideoGone}

\* the subtitle streams of the file at a path
StreamsAt(video_path) == IF video_path \in DOMAIN media THEN media[video_path] ELSE <<>>

InitSelector ==
    /\ fs = TwinVideos \cup {UserSubtitle}
    /\ media \in [TwinVideos -> Medias]
    /\ call = NoCall
    /\ fin = None
    /\ fout = None
    /\ origin = None
    /\ widget = NewSelector

\* update_video_file(video_path)
UpdateVideo ==
    /\ \E video_path \in SelectorPaths :
       \E probe \in (IF IsBlank(video_path) \/ video_path \notin fs THEN {"not_run"} ELSE ProbeOutcomes) :
        widget' = UpdateVideoFile(widget, video_path, GetSubtitleTracks(video_path, fs, probe, StreamsAt(video_path)).tracks)
    /\ UNCHANGED <<fs, media, call, fin, fout, origin>>

\* refresh_tracks(): parent.current_video_path is given to update_video_file
\* when the parent has the attribute
RefreshTracks ==
    /\ \E has_path \in BOOLEAN, video_path \in SelectorPaths :
       \E probe \in (IF IsBlank(video_path) \/ video_path \notin fs THEN {"not_run"} ELSE ProbeOutcomes) :
        widget' = IF has_path
                  THEN UpdateVideoFile(widget, video_path, GetSubtitleTracks(video_path, fs, probe, StreamsAt(video_path)).tracks)
                  ELSE widget
    /\ UNCHANGED <<fs, media, call, fin, fout, origin>>

\* <<ComboboxSelected>>: the user picks one of the values shown
TrackSelected ==
    /\ \E selection \in (IF widget.values = <<>> THEN {NoIndex} ELSE 0..(Len(widget.values) - 1)) :
        widget' = OnTrackSelected(widget, selection)
    /\ UNCHANGED <<fs, media, call, fin, fout, origin>>

NextSelector == UpdateVideo \/ RefreshTracks \/ TrackSelected

SpecSelector == InitSelector /\ [][NextSelector]_vars

----------------------------------------------------------------------------
(* Properties *)

Ran == call.op = "run_alass"

\* the first argument of the alass command
ReferenceFile == call.popen[1]

\* alass is the last tool started
Launched == call.tools[Len(call.tools)] = "alass"

Resolved == Truthy(call.selected_track_info)

\* C1: when a track is resolved and the Extractor reports success, whatever the
\* codec, the reference file given to alass is the file the Extractor wrote and
\* not the video.
C1_ReferenceIsExtractedFile ==
    (Ran /\ Resolved /\ call.success) =>
        /\ ReferenceFile = call.ffmpeg_cmd.output
        /\ ReferenceFile # call.video_path

\* C2: cleanup removes nothing that lies outside the temporary directory or
\* whose name lacks the marker, and removes an existing path that lies in the
\* temporary directory and has the marker (when os.remove succeeds).
C2_CleanupGuard ==
    (call.op = "cleanup") =>
        LET p == call.subtitle_path
            removed == p \in call.fs_before /\ p \notin fs
            guarded == Under(TempDir, p) /\ Contains(<<Marker>>, Basename(p))
        IN  /\ ~guarded => ~removed
            /\ (guarded /\ p \in call.fs_before /\ call.remove_ok) => removed
            /\ fs \subseteq call.fs_before
            /\ call.fs_before \ fs \subseteq {p}

\* C3 as stated: with a pre-supplied track both resolutions are that track,
\* whatever the probe returned in either call.
C3_SameResolutionWhateverProbe ==
    (fout # None) =>
        /\ fout.first = fin.selected_track
        /\ fout.second = fin.selected_track

\* C3 amended: with a pre-supplied track and an existing video, each resolution
\* is that track, verbatim, when the probe of that call returned at least one
\* track (so two such calls agree whatever the tracks are), and none when the
\* probe of that call returned no track.
C3_VerbatimWhenProbeNotEmpty ==
    (fout # None) =>
        /\ fout.first = (IF fin.first # <<>> THEN fin.selected_track ELSE None)
        /\ fout.second = (IF fin.second # <<>> THEN fin.selected_track ELSE None)

\* two different non-empty probes, the second without the pre-supplied track
C3_Witness ==
    /\ fout # None
    /\ fin.first # <<>>
    /\ fin.second # <<>>
    /\ fin.first # fin.second
    /\ \A k \in 1..Len(fin.second) : fin.second[k] # fin.selected_track
    /\ ~fin.auto_select
    /\ fout.first = fin.selected_track
    /\ fout.second = fin.selected_track

\* C4: when the probe produces no tracks nothing is resolved in any mode, the
\* Extractor is not invoked and no file is created.
C4_EmptyProbeResolvesNone ==
    (Ran /\ call.tracks = <<>>) =>
        /\ call.selected_track_info = None
        /\ call.ffmpeg_cmd = NoCmd
        /\ \A k \in 1..Len(call.tools) : call.tools[k] # "ffmpeg"
        /\ call.reference_subtitle_path = <<>>
        /\ fs = call.fs_before

\* the probe of an existing video fails while the caller pre-supplied a track
C4_Witness ==
    /\ Ran
    /\ call.video_path \in call.fs_before
    /\ call.tools[1] = "ffprobe"
    /\ call.tracks = <<>>
    /\ Truthy(call.selected_track)
    /\ call.selected_track_info = None

\* C5: the ffmpeg command addresses the subtitle stream by the position the
\* Prober gave the chosen track in its list.
C5_CommandAddressesListPosition ==
    (Ran /\ call.ffmpeg_cmd # NoCmd) =>
        \A p \in 1..Len(call.tracks) :
            (call.tracks[p] = call.selected_track_info) => call.ffmpeg_cmd.map = p - 1

\* C6: when nothing is resolved or the Extractor fails, the reference file given
\* to alass is the video, and alass is started.
C6_FallbackToVideo ==
    (Ran /\ (~Resolved \/ ~call.success)) =>
        /\ ReferenceFile = call.video_path
        /\ Launched

\* the Extractor fails while a file of an earlier run lies at the temporary path
C6_Witness ==
    /\ Ran
    /\ Resolved
    /\ ~call.success
    /\ call.temp_subtitle_path \in fs
    /\ ReferenceFile = call.video_path
    /\ Launched

\* C7: without a pre-supplied track and with a non-empty probe, auto_select or a
\* single track resolves to the track at the Ranker's position without the
\* dialog; a single track resolves to that track.
C7_AutoOrSingleUsesRanker ==
    (/\ Ran
     /\ ~Truthy(call.selected_track)
     /\ call.tracks # <<>>
     /\ (call.auto_select \/ Len(call.tracks) = 1)) =>
        /\ call.selected_track_info =
             call.tracks[GetBestSubtitleTrack(call.tracks, call.preferred_language) + 1]
        /\ ~call.dialog
        /\ \A k \in 1..Len(call.tools) : call.tools[k] # "dialog"
        /\ (Len(call.tracks) = 1) => (call.selected_track_info = call.tracks[1])

\* one track, no auto_select, a parent window at hand
C7_Witness ==
    /\ Ran
    /\ ~Truthy(call.selected_track)
    /\ Len(call.tracks) = 1
    /\ ~call.auto_select
    /\ call.parent_window
    /\ call.selected_track_info = call.tracks[1]
    /\ ~call.dialog

\* C8: without a pre-supplied track, without auto_select and with two or more
\* tracks, a parent window gets the dialog over the probed list and its answer
\* is the resolution (none on cancel, and then nothing is extracted); without a
\* parent window the first probed track is the resolution.
C8_DialogOrFirstTrack ==
    (/\ Ran
     /\ ~Truthy(call.selected_track)
     /\ ~call.auto_select
     /\ Len(call.tracks) >= 2) =>
        IF call.parent_window
        THEN /\ call.dialog
             /\ call.selected_track_info =
                  (IF call.answer = NoIndex THEN None ELSE call.tracks[call.answer + 1])
             /\ (call.answer = NoIndex) =>
                    /\ call.ffmpeg_cmd = NoCmd
                    /\ \A k \in 1..Len(call.tools) : call.tools[k] # "ffmpeg"
                    /\ fs = call.fs_before
        ELSE /\ ~call.dialog
             /\ call.selected_track_info = call.tracks[1]

\* the user picks the second track in the dialog
C8_Witness ==
    /\ Ran
    /\ ~Truthy(call.selected_track)
    /\ ~call.auto_select
    /\ Len(call.tracks) >= 2
    /\ call.parent_window
    /\ call.dialog
    /\ call.answer = 1
    /\ call.selected_track_info = call.tracks[2]

\* C9: best is none for an empty list, else the position of the first track
\* whose language is the preferred one without regard to case, else 0; it is a
\* position in the list.
C9_BestIsFirstMatchElseZero ==
    (fout # None) =>
        LET t == fin.tracks
            l == fin.preferred_language
            b == fout.best
            Match(k) == Lower(t[k].language) = Lower(l)
        IN  IF t = <<>> THEN b = NoIndex
            ELSE /\ b \in 0..(Len(t) - 1)
                 /\ IF \E k \in 1..Len(t) : Match(k)
                    THEN Match(b + 1) /\ \A k \in 1..b : ~Match(k)
                    ELSE b = 0

\* the match is at position 1, differs in case from the preferred language,
\* and the stream index of that track is not 1
C9_Witness ==
    /\ fout # None
    /\ fout.best = 1
    /\ Len(fin.tracks) >= 2
    /\ fin.tracks[2].language # fin.preferred_language
    /\ Lower(fin.tracks[2].language) = Lower(fin.preferred_language)
    /\ fin.tracks[2].index # 1

\* C10: for a video path that does not exist, probe returns the empty list and
\* starts no external tool.
C10_MissingVideoNoTool ==
    (call.op = "get_subtitle_tracks" /\ call.video_path \notin call.fs_before) =>
        /\ call.tracks = <<>>
        /\ call.tools = <<>>

\* the missing video is probed while the container at hand has subtitle streams
C10_Witness ==
    /\ call.op = "get_subtitle_tracks"
    /\ call.video_path = VideoGone
    /\ call.video_path \notin call.fs_before
    /\ media # <<>>
    /\ call.tracks = <<>>
    /\ call.tools = <<>>

\* C11: probe is fail-soft: when ffprobe exits non-zero, prints malformed
\* output, cannot be run (I/O failure) or times out, probe returns the empty
\* list and no exception reaches the caller.
C11_ProbeFailSoft ==
    (fout # None) =>
        /\ fout.raised = NoException
        /\ (fin.outcome \in {"nonzero", "malformed", "oserror", "timeout"}) =>
               fout.tracks = <<>>

\* ffprobe times out on an existing video that has subtitle streams
C11_Witness ==
    /\ fout # None
    /\ fin.video_path \in fs
    /\ fin.outcome = "timeout"
    /\ fin.streams # <<>>
    /\ fout.tools = <<"ffprobe">>
    /\ fout.tracks = <<>>
    /\ fout.raised = NoException

\* C12: extract returns true only if ffmpeg exited zero and the
\* extension-rewritten output path exists afterwards; an exception, a timeout
\* or a missing ffmpeg executable yields false, and no exception reaches the
\* caller.
C12_ExtractTrueOnlyIfZeroAndExists ==
    (fout # None) =>
        /\ fout.raised = NoException
        /\ fout.success =>
               /\ fin.outcome \in {"zero", "zero_nofile"}
               /\ RewriteExtension(fin.output_path, fin.codec_name) \in fs
        /\ (fin.outcome \in {"no_ffmpeg", "oserror", "timeout"}) => ~fout.success

\* ffmpeg exits zero but leaves no file at the rewritten path: false
C12_Witness ==
    /\ fout # None
    /\ fin.outcome = "zero_nofile"
    /\ ~fin.stale
    /\ fin.output_path = OutTxt
    /\ fout.tools = <<"ffmpeg">>
    /\ ~fout.success

\* C13: extract maps codec_name to a format (subrip->srt, ass->ass,
\* webvtt->vtt, mov_text->srt, any other codec->srt) and the command targets
\* the caller's output path with its extension replaced by that format,
\* whatever extension the caller supplied.
C13_FormatAndExtension ==
    (fout # None /\ fout.cmd # NoCmd) =>
        LET fmt == IF fin.codec_name = "subrip" THEN ".srt"
                   ELSE IF fin.codec_name = "ass" THEN ".ass"
                   ELSE IF fin.codec_name = "webvtt" THEN ".vtt"
                   ELSE IF fin.codec_name = "mov_text" THEN ".srt"
                   ELSE ".srt"
            stem == IF fin.output_path = OutBare THEN OutBare
                    ELSE SubSeq(fin.output_path, 1, Len(fin.output_path) - 1)
        IN  fout.cmd.output = stem \o <<fmt>>

\* x.txt with webvtt targets x.vtt
C13_Witness ==
    /\ fout # None
    /\ fin.output_path = OutTxt
    /\ fin.codec_name = "webvtt"
    /\ fout.cmd # NoCmd
    /\ fout.cmd.output = <<"/", "home", "/", "x", ".vtt">>

\* C14: every call of run_alass_with_subtitle_track starts alass exactly once,
\* after probing, resolution and extraction have finished, with the arguments
\* [reference_file, subtitle_path, output_path] followed by the additional
\* arguments in their given order, and returns the handle of the started
\* process without waiting for its exit.
C14_LaunchOnceLastInOrder ==
    Ran =>
        /\ Cardinality({i \in 1..Len(call.tools) : call.tools[i] = "alass"}) = 1
        /\ call.tools[Len(call.tools)] = "alass"
        /\ Len(call.process.args) = 3 + Len(call.additional_args)
        /\ call.process.args[1] = (IF call.reference_subtitle_path = <<>> THEN call.video_path ELSE call.reference_subtitle_path)
        /\ call.process.args[2] = UserSubtitle
        /\ call.process.args[3] = UserOutput
        /\ \A i \in 1..Len(call.additional_args) : call.process.args[3 + i] = call.additional_args[i]
        /\ call.process.state = "running"

\* ffprobe and ffmpeg ran, then alass was started with two additional arguments
C14_Witness ==
    /\ Ran
    /\ call.tools = <<"ffprobe", "ffmpeg", "alass">>
    /\ call.success
    /\ Len(call.additional_args) = 2
    /\ call.process.args[4] = <<"--split-penalty">>
    /\ call.process.args[5] = <<"10">>

\* C16: cleanup_extracted_subtitle never raises, whatever its argument (an
\* empty or missing path included): a failure of the deletion is swallowed and
\* the caller regains control normally.
C16_CleanupNeverRaises ==
    (call.op = "cleanup") => call.raised = NoException

\* os.remove fails on an extracted file that passes both guards: the file
\* stays and nothing is raised
C16_Witness ==
    /\ call.op = "cleanup"
    /\ call.subtitle_path \in call.fs_before
    /\ Under(TempDir, call.subtitle_path)
    /\ Contains(<<Marker>>, Basename(call.subtitle_path))
    /\ ~call.remove_ok
    /\ call.subtitle_path \in fs
    /\ call.raised = NoException

\* C15: for every track the Prober returns, display_name is "Track p", p
\* being the track's 1-based position in the returned list, followed in this
\* order by "(language)" if the language is known, "- title" if the title is
\* not empty and "[codec_name]" if the codec is known, with single spaces
\* between the parts and absent parts left out.
C15_DisplayName ==
    (fout # None) =>
        \A p \in 1..Len(fout.tracks) :
            LET t == fout.tracks[p]
                lang == IF t.language = "unknown" THEN <<>> ELSE <<" ", "(", t.language, ")">>
                ttl == IF t.title = "" THEN <<>> ELSE <<" ", "-", " ", t.title>>
                cdc == IF t.codec_name = "unknown" THEN <<>> ELSE <<" ", "[", t.codec_name, "]">>
            IN  t.display_name = <<"Track", " ", ToStr(p)>> \o lang \o ttl \o cdc

\* a second track without language, with a title and a codec, where other
\* streams precede the subtitle streams in the container
C15_Witness ==
    /\ fout # None
    /\ Len(fout.tracks) = 2
    /\ fout.tracks[2].index = 3
    /\ fout.tracks[2].display_name = <<"Track", " ", "2", " ", "-", " ", "Forced", " ", "[", "webvtt", "]">>
    /\ fout.tracks[1].display_name = <<"Track", " ", "1", " ", "(", "es", ")">>

\* C17: the temporary reference file name is collision-resistant: a call
\* never writes a temporary path that holds the file of a call for another
\* video or another stream index, and never returns as its reference a file
\* that was written for another video or stream.
C17_TempNameCollisionFree ==
    (call.op = "run_alass" /\ Truthy(call.selected_track_info)) =>
        LET mine(o) == /\ o.video_path = call.video_path
                       /\ o.index = call.selected_track_info.index
        IN  /\ call.wrote =>
                \A o \in call.origin_before : o.path = call.ffmpeg_cmd.output => mine(o)
            /\ call.reference_subtitle_path # <<>> =>
                \E o \in origin : o.path = call.reference_subtitle_path /\ mine(o)

\* C18: after any sequence of update_video_file, refresh_tracks and
\* _on_track_selected, get_selected_track() returns None or a track of the
\* video most recently passed to update_video_file; after update_video_file
\* with an empty or blank path it returns None.
C18_SelectedTrackOfCurrentVideo ==
    LET track == GetSelectedTrack(widget)
    IN  \/ track = None
        \/ /\ ~IsBlank(widget.video_path)
           /\ track \in Range(ParseStreams(StreamsAt(widget.video_path)))

====
